---- MODULE Spec2Model ----
(***************************************************************************)
(* A model of src-tauri/scripts/scraper.py: the command dispatcher main(), *)
(* the bulk fetch orchestrator scrape_urls_bulk_impl, the single-page      *)
(* fetcher scrape_url, the search adapter search_duckduckgo and the search *)
(* aggregator smart_search_impl.                                           *)
(*                                                                         *)
(* The specifications share the variables:                                 *)
(*   Spec        main() with the thread pool of scrape_urls_bulk_impl      *)
(*   SpecFetch   one scrape_url call, step by step                         *)
(*   SpecSearch  one smart_search_impl call, one provider call per step    *)
(***************************************************************************)
EXTENDS Integers, Sequences, FiniteSets

VARIABLES
    \* ---- main() and scrape_urls_bulk_impl
    stdin,       \* what sys.stdin.read() yields, by shape
    mpc,         \* position of main()
    stdout,      \* envelopes print_json has written, in order
    escaped,     \* an exception left main()
    task,        \* per submitted entry of urls: state of its future
    outcome,     \* per entry: what scrape_with_logging returned
    fetchCount,  \* per entry: number of scrape_url invocations
    threads,     \* worker threads the executor has spawned
    results,     \* the list `results` of scrape_urls_bulk_impl
    found,       \* len(urls) once main() holds the URL list, -1 before
    crashLogged, \* scrape_with_logging caught an exception (line 357)
    bulkCalled   \* scrape_urls_bulk_impl was entered

mainVars == <<stdin, mpc, stdout, escaped, task, outcome, fetchCount, threads,
              results, found, crashLogged, bulkCalled>>

VARIABLES
    \* ---- scrape_url
    fpc,          \* position of scrape_url
    deps,         \* CURL_CFFI_AVAILABLE, BS4_AVAILABLE, HTML2TEXT_AVAILABLE
    response,     \* what requests.get returned: status and len(content)
    soup,         \* the parsed document
    title,        \* the local `title`
    main_content, \* the local `main_content`
    final_len,    \* len(final_content)
    fresult       \* the dict scrape_url returned

fetchVars == <<fpc, deps, response, soup, title, main_content, final_len, fresult>>

VARIABLES
    \* ---- smart_search_impl and search_duckduckgo
    spc,         \* position of smart_search_impl
    config,      \* the config dict
    ci,          \* index of the category the loop of line 308 is at
    si,          \* index of the site the loops of lines 313 and 319 are at
    calls,       \* the search_duckduckgo calls made: query, limit, urls returned
    all_urls,    \* the list `all_urls`
    sresult      \* the list smart_search_impl returned

searchVars == <<spc, config, ci, si, calls, all_urls, sresult>>

vars == <<mainVars, fetchVars, searchVars>>

NotMain == UNCHANGED <<fetchVars, searchVars>>
NotFetch == UNCHANGED <<mainVars, searchVars>>
NotSearch == UNCHANGED <<mainVars, fetchVars>>

\* ------------------------------------------------------------------ bounds

\* Longest URL list handed to scrape_urls_bulk_impl (more than max_workers).
MaxUrls == 6

\* Longest URL list smart_search_impl hands to search_and_scrape.
MaxFound == 2

\* A pool as wide as the longest list: one thread per URL.
max_workers_per_url == MaxUrls + MaxFound

\* ThreadPoolExecutor(max_workers=5), line 361
max_workers == 5

\* ------------------------------------------------------------------ helpers

Range(s) == {s[i] : i \in 1..Len(s)}

Min(a, b) == IF a <= b THEN a ELSE b

\* ------------------------------------------------------------------ main()

Commands == {"scrape", "search_duckduckgo", "smart_search", "search_and_scrape",
             "scrape_urls_bulk", "check"}

\* The commands that return early when their field is missing or falsy.
NeedsField == Commands \ {"check"}

\* The shapes of standard input main() distinguishes.  `field` says whether
\* the command's required field (url, query, urls) is present and truthy;
\* `nurls` is len(urls) of a scrape_urls_bulk command.
StdinShapes ==
    {[kind |-> "empty",     command |-> "none", field |-> FALSE, nurls |-> 0],
     [kind |-> "notjson",   command |-> "none", field |-> FALSE, nurls |-> 0],
     [kind |-> "nonobject", command |-> "none", field |-> FALSE, nurls |-> 0]}
    \cup
    {[kind |-> "object", command |-> c, field |-> f, nurls |-> 0] :
        c \in NeedsField \ {"scrape_urls_bulk"}, f \in BOOLEAN}
    \cup
    {[kind |-> "object", command |-> c, field |-> TRUE, nurls |-> 0] :
        c \in {"check", "absent", "bogus"}}
    \cup
    {[kind |-> "object", command |-> "scrape_urls_bulk", field |-> (n > 0),
      nurls |-> n] : n \in 0..MaxUrls}

\* print_json(data): one json.dumps line on standard output.
print_json(data) == stdout' = Append(stdout, data)

Envelope(t, m) == [type |-> t, message |-> m]

NoBulk == UNCHANGED <<task, outcome, fetchCount, threads, results, found, crashLogged, bulkCalled>>

\* Lines 382-386: read standard input; nothing there is an error envelope.
ReadStdin ==
    /\ mpc = "read"
    /\ IF stdin.kind = "empty"
         THEN /\ print_json(Envelope("error", "No input provided"))
              /\ mpc' = "done"
         ELSE /\ mpc' = "parse"
              /\ UNCHANGED stdout
    /\ UNCHANGED <<stdin, escaped>>
    /\ NoBulk
    /\ NotMain

\* Lines 389-394: json.loads; JSONDecodeError is an error envelope.
ParseJson ==
    /\ mpc = "parse"
    /\ IF stdin.kind = "notjson"
         THEN /\ print_json(Envelope("error", "Invalid JSON"))
              /\ mpc' = "done"
         ELSE /\ mpc' = "command"
              /\ UNCHANGED stdout
    /\ UNCHANGED <<stdin, escaped>>
    /\ NoBulk
    /\ NotMain

\* GetCommand without the handler of lines 480-482: the AttributeError
\* leaves main() and nothing is written.
GetCommandUnhandled ==
    /\ mpc = "command"
    /\ IF stdin.kind = "nonobject"
         THEN /\ escaped' = TRUE
              /\ mpc' = "done"
         ELSE /\ mpc' = "dispatch"
              /\ UNCHANGED escaped
    /\ UNCHANGED <<stdin, stdout>>
    /\ NoBulk
    /\ NotMain

\* Line 396 with lines 480-482: command_data.get on a JSON value that is no
\* object raises AttributeError, which the handler of main() turns into an
\* envelope.
GetCommand ==
    /\ mpc = "command"
    /\ IF stdin.kind = "nonobject"
         THEN /\ print_json(Envelope("error", "Critical error"))
              /\ mpc' = "done"
         ELSE /\ mpc' = "dispatch"
              /\ UNCHANGED stdout
    /\ UNCHANGED <<stdin, escaped>>
    /\ NoBulk
    /\ NotMain

\* What scrape_url can hand back to main(): a success or an error dict.
FetchResultTypes == {"success", "error"}

\* Lines 400-409.
CmdScrape ==
    /\ mpc = "dispatch"
    /\ stdin.command = "scrape"
    /\ IF ~stdin.field
         THEN print_json(Envelope("error", "URL missing"))
         ELSE \E r \in FetchResultTypes : print_json(Envelope(r, "scrape_url"))
    /\ mpc' = "done"
    /\ UNCHANGED <<stdin, escaped>>
    /\ NoBulk
    /\ NotMain

\* Lines 411-420.
CmdSearchDuckduckgo ==
    /\ mpc = "dispatch"
    /\ stdin.command = "search_duckduckgo"
    /\ IF ~stdin.field
         THEN print_json(Envelope("error", "Query missing"))
         ELSE print_json(Envelope("success", "urls"))
    /\ mpc' = "done"
    /\ UNCHANGED <<stdin, escaped>>
    /\ NoBulk
    /\ NotMain

\* Lines 422-431.
CmdSmartSearch ==
    /\ mpc = "dispatch"
    /\ stdin.command = "smart_search"
    /\ IF ~stdin.field
         THEN print_json(Envelope("error", "Query missing"))
         ELSE print_json(Envelope("success", "urls"))
    /\ mpc' = "done"
    /\ UNCHANGED <<stdin, escaped>>
    /\ NoBulk
    /\ NotMain

\* Line 344-346 and the entry of the with block: scrape_urls_bulk_impl(urls)
\* with len(urls) = n.
EnterBulk(n) ==
    /\ bulkCalled' = TRUE
    /\ task' = [i \in 1..n |-> "unsubmitted"]
    /\ outcome' = [i \in 1..n |-> "none"]
    /\ fetchCount' = [i \in 1..n |-> 0]
    /\ threads' = 0
    /\ results' = <<>>
    /\ UNCHANGED crashLogged
    /\ mpc' = "submit"

\* Lines 433-449: the URL list is what smart_search_impl returned, of any
\* length from 0 up; an empty list answers at once.
CmdSearchAndScrape ==
    /\ mpc = "dispatch"
    /\ stdin.command = "search_and_scrape"
    /\ IF ~stdin.field
         THEN /\ print_json(Envelope("error", "Query missing"))
              /\ mpc' = "done"
              /\ NoBulk
         ELSE \E n \in 0..MaxFound :
                /\ found' = n
                /\ IF n = 0
                     THEN /\ print_json(Envelope("success", "results"))
                          /\ mpc' = "done"
                          /\ UNCHANGED <<task, outcome, fetchCount, threads, results,
                                         crashLogged, bulkCalled>>
                     ELSE /\ EnterBulk(n)
                          /\ UNCHANGED stdout
    /\ UNCHANGED <<stdin, escaped>>
    /\ NotMain

\* Lines 452-459.
CmdScrapeUrlsBulk ==
    /\ mpc = "dispatch"
    /\ stdin.command = "scrape_urls_bulk"
    /\ IF stdin.nurls = 0
         THEN /\ print_json(Envelope("error", "URLs missing"))
              /\ mpc' = "done"
              /\ NoBulk
         ELSE /\ found' = stdin.nurls
              /\ EnterBulk(stdin.nurls)
              /\ UNCHANGED stdout
    /\ UNCHANGED <<stdin, escaped>>
    /\ NotMain

\* Lines 462-475: the three import flags, set when the module loads.
CmdCheck ==
    /\ mpc = "dispatch"
    /\ stdin.command = "check"
    /\ \E missing \in SUBSET {"curl_cffi", "beautifulsoup4", "html2text"} :
         IF missing # {}
           THEN print_json(Envelope("error", "Missing"))
           ELSE print_json(Envelope("success", "All dependencies available"))
    /\ mpc' = "done"
    /\ UNCHANGED <<stdin, escaped>>
    /\ NoBulk
    /\ NotMain

\* Lines 477-478.
CmdUnknown ==
    /\ mpc = "dispatch"
    /\ stdin.command \notin Commands
    /\ print_json(Envelope("error", "Unknown command"))
    /\ mpc' = "done"
    /\ UNCHANGED <<stdin, escaped>>
    /\ NoBulk
    /\ NotMain

\* ------------------------------------------------- scrape_urls_bulk_impl

Entries == 1..Len(task)

InFlight == {i \in Entries : task[i] = "running"}

\* executor.submit (line 362): the next entry is queued; the executor adds a
\* worker thread while it has fewer than max_workers.
Submit ==
    /\ mpc = "submit"
    /\ \E i \in Entries :
        /\ task[i] = "unsubmitted"
        /\ \A j \in 1..(i - 1) : task[j] # "unsubmitted"
        /\ task' = [task EXCEPT ![i] = "queued"]
        /\ threads' = IF threads < max_workers THEN threads + 1 ELSE threads
        /\ mpc' = IF i = Len(task) THEN "collect" ELSE "submit"
    /\ UNCHANGED <<stdin, stdout, escaped, outcome, fetchCount, results, found, crashLogged, bulkCalled>>
    /\ NotMain

\* A free worker thread takes the oldest queued entry and calls
\* scrape_with_logging, which calls scrape_url (line 350).
WorkerStart ==
    /\ mpc \in {"submit", "collect"}
    /\ Cardinality(InFlight) < threads
    /\ \E i \in Entries :
        /\ task[i] = "queued"
        /\ \A j \in 1..(i - 1) : task[j] # "queued"
        /\ task' = [task EXCEPT ![i] = "running"]
        /\ fetchCount' = [fetchCount EXCEPT ![i] = @ + 1]
    /\ UNCHANGED <<stdin, mpc, stdout, escaped, outcome, threads, results, found, crashLogged, bulkCalled>>
    /\ NotMain

Finish(i, type, crashed) ==
    /\ mpc \in {"submit", "collect"}
    /\ task[i] = "running"
    /\ task' = [task EXCEPT ![i] = "done"]
    /\ outcome' = [outcome EXCEPT ![i] = type]
    /\ crashLogged' = (crashLogged \/ crashed)
    /\ NotMain
    /\ UNCHANGED <<stdin, mpc, stdout, escaped, fetchCount, threads, results, found,
                   bulkCalled>>

\* Lines 350-355: scrape_url returned a success dict.
FetchSuccess == \E i \in Entries : Finish(i, "success", FALSE)

\* A wrapper that puts a failed entry back on the queue.
FetchFailureRetried ==
    /\ \E i \in 1..Len(task) :
        /\ mpc \in {"submit", "collect"}
        /\ task[i] = "running"
        /\ task' = [task EXCEPT ![i] = "queued"]
        /\ UNCHANGED <<stdin, mpc, stdout, escaped, outcome, fetchCount, threads,
                       results, found, crashLogged, bulkCalled>>
    /\ NotMain

\* Lines 350-355: scrape_url returned an error dict.
FetchFailure == \E i \in Entries : Finish(i, "error", FALSE)

\* Lines 356-358: scrape_url raised; the wrapper returns an error dict.
FetchCrash == \E i \in Entries : Finish(i, "error", TRUE)

\* A collector that appends every result, whatever its type.
CollectUnfiltered ==
    /\ mpc = "collect"
    /\ \E i \in 1..Len(task) :
        /\ task[i] = "done"
        /\ task' = [task EXCEPT ![i] = "collected"]
        /\ results' = Append(results, i)
    /\ UNCHANGED <<stdin, mpc, stdout, escaped, outcome, fetchCount, threads, found,
                   crashLogged, bulkCalled>>
    /\ NotMain

\* Lines 363-369: as_completed hands over a finished future; only a success
\* is appended to results.
Collect ==
    /\ mpc = "collect"
    /\ \E i \in Entries :
        /\ task[i] = "done"
        /\ task' = [task EXCEPT ![i] = "collected"]
        /\ results' = IF outcome[i] = "success" THEN Append(results, i) ELSE results
    /\ UNCHANGED <<stdin, mpc, stdout, escaped, outcome, fetchCount, threads, found, crashLogged, bulkCalled>>
    /\ NotMain

\* Lines 371-372 and 450/460: every future was handed over; the pool shuts
\* down, the list is returned and main() prints the success envelope.
BulkReturn ==
    /\ mpc = "collect"
    /\ \A i \in Entries : task[i] = "collected"
    /\ print_json(Envelope("success", "results"))
    /\ mpc' = "done"
    /\ UNCHANGED <<stdin, escaped, task, outcome, fetchCount, threads, results, found, crashLogged, bulkCalled>>
    /\ NotMain

\* ------------------------------------------------------------- scrape_url

None == "None"

NoResponse == [status |-> 0, length |-> 0]

\* Status codes the transport hands back once redirects are followed (300
\* Multiple Choices carries no Location to follow), and body sizes around
\* the 100-byte threshold of line 160.
Statuses == {200, 300, 404, 500}
BodyLengths == {99, 100}

\* Text sizes of a candidate element around the 200-character threshold of
\* lines 199 and 203; -1 stands for an element the page does not have.
TextLengths == {-1, 200, 201}

Present(doc, kind) == doc.text[kind] >= 0

\* Sizes of the final text around the 100-character threshold of line 225.
FinalLengths == {99, 100}

\* The elements of a page the selectors of line 194 are written for, in
\* document order, with the tag name, role attribute and class of each.
ElementKinds == <<"article", "main", "rolemain", "content", "post", "entry">>

Element(kind) ==
    CASE kind = "article"  -> [tag |-> "article", role |-> "",     class |-> ""]
      [] kind = "main"     -> [tag |-> "main",    role |-> "",     class |-> ""]
      [] kind = "rolemain" -> [tag |-> "div",     role |-> "main", class |-> ""]
      [] kind = "content"  -> [tag |-> "div",     role |-> "",     class |-> "content"]
      [] kind = "post"     -> [tag |-> "div",     role |-> "",     class |-> "post"]
      [] kind = "entry"    -> [tag |-> "div",     role |-> "",     class |-> "entry"]

\* A title source: not in the page, in the page without a value (a meta tag
\* with no content, an empty <title>), or in the page with a value.
TitleStates == {"absent", "empty", "text"}

Documents ==
    [og_title : TitleStates, meta_title : TitleStates, title_el : TitleStates,
     text : [Range(ElementKinds) -> TextLengths], body : BOOLEAN, parsed : {TRUE}]

NoDocument ==
    [og_title |-> "absent", meta_title |-> "absent", title_el |-> "absent",
     text |-> [k \in Range(ElementKinds) |-> -1], body |-> FALSE, parsed |-> FALSE]

\* Lines 179-182.  soup.find yields the tag when the page has it, with or
\* without a value, and `or` moves on only past None; a meta tag has no
\* .string and a <title> no content attribute.
ExtractTitle(doc) ==
    LET title_tag ==
            IF doc.og_title # "absent" THEN "og"
            ELSE IF doc.meta_title # "absent" THEN "meta"
            ELSE IF doc.title_el # "absent" THEN "title"
            ELSE None
        content ==
            IF title_tag = "og" /\ doc.og_title = "text" THEN "og"
            ELSE IF title_tag = "meta" /\ doc.meta_title = "text" THEN "meta"
            ELSE None
        string ==
            IF title_tag = "title" /\ doc.title_el = "text" THEN "title" ELSE None
    IN  IF title_tag = None THEN "Sem titulo"
        ELSE IF content # None THEN content
        ELSE IF string # None THEN string
        ELSE "Sem titulo"

\* The selectors of line 194, as written; `bracket` is
\* selector.startswith('[').
Selectors ==
    <<[css |-> "article",       bracket |-> FALSE],
      [css |-> "main",          bracket |-> FALSE],
      [css |-> "[role=main]",   bracket |-> TRUE],
      [css |-> ".content",      bracket |-> FALSE],
      [css |-> ".post",         bracket |-> FALSE],
      [css |-> ".entry",        bracket |-> FALSE]>>

\* soup.find(name) from element i on: the first element of the page, in
\* document order, whose tag name is `name`.
RECURSIVE FindFrom(_, _, _)
FindFrom(doc, name, i) ==
    IF i > Len(ElementKinds) THEN None
    ELSE IF Present(doc, ElementKinds[i]) /\ Element(ElementKinds[i]).tag = name
      THEN ElementKinds[i]
      ELSE FindFrom(doc, name, i + 1)

find(doc, name) == FindFrom(doc, name, 1)

\* The CSS selector `css` matches the element e.
CssMatches(css, e) ==
    \/ css = "[role=main]" /\ e.role = "main"
    \/ css = ".content" /\ e.class = "content"
    \/ css = ".post" /\ e.class = "post"
    \/ css = ".entry" /\ e.class = "entry"
    \/ css \in {"article", "main"} /\ e.tag = css

\* soup.select_one(css) from element i on: the first element the CSS
\* selector matches.
RECURSIVE SelectOneFrom(_, _, _)
SelectOneFrom(doc, css, i) ==
    IF i > Len(ElementKinds) THEN None
    ELSE IF Present(doc, ElementKinds[i]) /\ CssMatches(css, Element(ElementKinds[i]))
      THEN ElementKinds[i]
      ELSE SelectOneFrom(doc, css, i + 1)

select_one(doc, css) == SelectOneFrom(doc, css, 1)

\* len(elem.get_text(strip=True))
TextLength(doc, elem) == doc.text[elem]

\* Lines 193-200: the loop over the selectors, leaving in main_content the
\* candidate it broke on or, with no break, the last lookup.
RECURSIVE SelectorLoop(_, _, _)
SelectorLoop(doc, i, current) ==
    IF i > Len(Selectors) THEN current
    ELSE LET found_elem == IF Selectors[i].bracket
                             THEN select_one(doc, Selectors[i].css)
                             ELSE find(doc, Selectors[i].css)
         IN  IF found_elem # None /\ TextLength(doc, found_elem) > 200
               THEN found_elem
               ELSE SelectorLoop(doc, i + 1, found_elem)

\* Lines 193-204: the loop, then the fallback to body or the whole soup.
SelectMainContent(doc) ==
    LET looped == SelectorLoop(doc, 1, None)
    IN  IF looped = None \/ TextLength(doc, looped) < 200
          THEN (IF doc.body THEN "body" ELSE "soup")
          ELSE looped

ErrorResult(m) ==
    [type |-> "error", message |-> m, title |-> None, content |-> None]

SuccessResult(t, c) ==
    [type |-> "success", message |-> None, title |-> t, content |-> c]

NoResult == [type |-> None, message |-> None, title |-> None, content |-> None]

Return(r) ==
    /\ fresult' = r
    /\ fpc' = "returned"

\* Lines 109-125: a missing import answers at once.
CheckDependencies ==
    /\ fpc = "deps"
    /\ IF ~deps.curl_cffi THEN Return(ErrorResult("curl_cffi missing"))
       ELSE IF ~deps.bs4 THEN Return(ErrorResult("beautifulsoup4 missing"))
       ELSE IF ~deps.html2text THEN Return(ErrorResult("html2text missing"))
       ELSE fpc' = "request" /\ UNCHANGED fresult
    /\ UNCHANGED <<deps, response, soup, title, main_content, final_len>>
    /\ NotFetch

\* Lines 142-150, 152-157: requests.get raises (network error, timeout).
RequestFails ==
    /\ fpc = "request"
    /\ Return(ErrorResult("Failed to fetch URL"))
    /\ UNCHANGED <<deps, response, soup, title, main_content, final_len>>
    /\ NotFetch

\* Lines 143-157: requests.get returns; raise_for_status raises on an error
\* status, 4xx or 5xx, and on no other.
RequestReturns ==
    /\ fpc = "request"
    /\ \E st \in Statuses, n \in BodyLengths :
        /\ response' = [status |-> st, length |-> n]
        /\ IF st >= 400
             THEN Return(ErrorResult("Failed to fetch URL"))
             ELSE fpc' = "length" /\ UNCHANGED fresult
    /\ UNCHANGED <<deps, soup, title, main_content, final_len>>
    /\ NotFetch

\* The check of line 160 left out.
CheckLengthSkipped ==
    /\ fpc = "length"
    /\ fpc' = "parse"
    /\ UNCHANGED <<deps, response, soup, title, main_content, final_len, fresult>>
    /\ NotFetch

\* Lines 160-164.
CheckLength ==
    /\ fpc = "length"
    /\ IF response.length < 100
         THEN Return(ErrorResult("Resposta muito curta"))
         ELSE fpc' = "parse" /\ UNCHANGED fresult
    /\ UNCHANGED <<deps, response, soup, title, main_content, final_len>>
    /\ NotFetch

\* Lines 169-176: BeautifulSoup raises.
ParseFails ==
    /\ fpc = "parse"
    /\ Return(ErrorResult("Failed to parse HTML"))
    /\ UNCHANGED <<deps, response, soup, title, main_content, final_len>>
    /\ NotFetch

\* Line 170: BeautifulSoup returns the document.
ParseReturns ==
    /\ fpc = "parse"
    /\ soup' \in Documents
    /\ fpc' = "title"
    /\ UNCHANGED <<deps, response, title, main_content, final_len, fresult>>
    /\ NotFetch

\* Lines 178-200 and 202-207: the title, the removal of the non-content
\* elements, the choice of the main content.
Extract ==
    /\ fpc = "title"
    /\ title' = ExtractTitle(soup)
    /\ main_content' = SelectMainContent(soup)
    /\ fpc' = "convert"
    /\ UNCHANGED <<deps, response, soup, final_len, fresult>>
    /\ NotFetch

\* Lines 210-239: html2text renders the subtree, or raises and get_text
\* stands in; the lines are trimmed and joined; a text under 100 characters
\* is an error, anything else the success dict.
Convert ==
    /\ fpc = "convert"
    /\ \E n \in FinalLengths :
        /\ final_len' = n
        /\ IF n < 100
             THEN Return(ErrorResult("Conteudo insuficiente"))
             ELSE Return(SuccessResult(title, main_content))
    /\ UNCHANGED <<deps, response, soup, title, main_content>>
    /\ NotFetch

\* Lines 241-246: anything else raised inside the try block is caught and
\* returned as an error dict.
UnexpectedException ==
    /\ fpc \in {"request", "length", "parse", "title", "convert"}
    /\ Return(ErrorResult("str(e)"))
    /\ UNCHANGED <<deps, response, soup, title, main_content, final_len>>
    /\ NotFetch

\* ---------------------------------------------------------- URL utilities

\* A URL is the sequence of its characters.
U_ab_p == <<"h", ":", "/", "/", "a", ".", "b", "/", "p">>
U_ab_q == <<"h", ":", "/", "/", "a", ".", "b", "/", "q">>
U_cd   == <<"h", ":", "/", "/", "c", ".", "d", "/", "p">>
U_ads  == <<"h", ":", "/", "/", "a", "d", "s", ".", "c", "/", "p">>
U_ADS  == <<"h", ":", "/", "/", "A", "D", "S", ".", "d", "/", "p">>
U_rel  == <<"/", "l", "/", "?", "u", "=", "a", ".", "b">>

\* x in y, for two Python strings.
IsSubstring(x, y) ==
    \E i \in 0..(Len(y) - Len(x)) : SubSeq(y, i + 1, i + Len(x)) = x

\* str.lower(), on the letters the URLs use.
LowerChar(c) ==
    CASE c = "A" -> "a" [] c = "D" -> "d" [] c = "S" -> "s" [] OTHER -> c

Lower(str) == [i \in 1..Len(str) |-> LowerChar(str[i])]

\* urlparse(url).netloc: past the scheme and "//", up to the first of /?#.
Netloc(url) ==
    LET colons == {i \in 1..Len(url) : url[i] = ":"}
        colon == IF colons = {} THEN 0
                 ELSE CHOOSE i \in colons : \A j \in colons : i <= j
        hasScheme == colon > 1 /\ \A i \in 1..(colon - 1) : url[i] \notin {"/", "?", "#"}
        rest == IF hasScheme THEN SubSeq(url, colon + 1, Len(url)) ELSE url
        ends == {i \in 3..Len(rest) : rest[i] \in {"/", "?", "#"}}
        delim == IF ends = {} THEN Len(rest) + 1
                 ELSE CHOOSE i \in ends : \A j \in ends : i <= j
    IN  IF Len(rest) >= 2 /\ rest[1] = "/" /\ rest[2] = "/"
          THEN SubSeq(rest, 3, delim - 1)
          ELSE <<>>

\* Lines 87-93.
extract_domain(url) == Netloc(url)

\* Line 97.
trackers ==
    <<<<"a", "n", "a", "l", "y", "t", "i", "c", "s">>,
      <<"g", "o", "o", "g", "l", "e", "-", "a", "n", "a", "l", "y", "t", "i", "c", "s">>,
      <<"d", "o", "u", "b", "l", "e", "c", "l", "i", "c", "k">>,
      <<"f", "a", "c", "e", "b", "o", "o", "k", ".", "c", "o", "m", "/", "t", "r">>,
      <<"a", "d", "s", ".">>,
      <<"b", "a", "n", "n", "e", "r">>,
      <<"t", "r", "a", "c", "k", "i", "n", "g">>>>

\* Lines 95-98.
is_ad_or_tracker_url(url) ==
    \E k \in 1..Len(trackers) : IsSubstring(trackers[k], Lower(url))

\* A filter that blocks a URL only when its domain equals an entry.
is_domain_blocked_exact(url, excluded_domains) ==
    \E k \in 1..Len(excluded_domains) : excluded_domains[k] = extract_domain(url)

\* Lines 100-103.
is_domain_blocked(url, excluded_domains) ==
    \E k \in 1..Len(excluded_domains) :
        IsSubstring(excluded_domains[k], extract_domain(url))

\* ------------------------------------------------------ search_duckduckgo

\* The result page of one query: the href of each result__a anchor in
\* document order, NoHref for an anchor without href (or with an empty one).
NoHref == <<>>
PageA == <<U_ab_p, U_ads, NoHref, U_ab_q, U_cd, U_rel>>
PageB == <<U_cd, U_ADS, U_ab_p>>
Pages == {PageA, PageB}

\* Lines 275-282: the loop over the anchors, from anchor i on.
RECURSIVE CollectAnchors(_, _, _, _)
CollectAnchors(page, limit, i, urls) ==
    IF i > Len(page) THEN urls
    ELSE LET href == page[i]
         IN  IF href # NoHref /\ ~is_ad_or_tracker_url(href)
               THEN (IF Len(urls) + 1 >= limit
                       THEN Append(urls, href)
                       ELSE CollectAnchors(page, limit, i + 1, Append(urls, href)))
               ELSE CollectAnchors(page, limit, i + 1, urls)

\* Lines 248-289, for a request that returned the page `page`.
search_duckduckgo(page, limit) == CollectAnchors(page, limit, 1, <<>>)

\* ------------------------------------------------------- smart_search_impl

\* Largest total_sources_limit of a config.
MaxTotalLimit == 4

SiteNames == <<"s1", "s2", "s3">>
CustomNames == <<"c1", "c2", "c3", "c4">>

Category(enabled, n) == [enabled |-> enabled, base_sites |-> SubSeq(SiteNames, 1, n)]

\* The category lists of the configs: none; a disabled category before an
\* enabled one, of three sites each; two enabled ones of one and two sites.
CategoryLists ==
    {<<>>,
     <<Category(FALSE, 3), Category(TRUE, 3)>>,
     <<Category(TRUE, 1), Category(TRUE, 2)>>}

CustomSiteLists == {<<>>, SubSeq(CustomNames, 1, 2), CustomNames}

\* excluded_domains: none; "x" and "b", the second a part of the host a.b.
ExcludedLists == {<<>>, <<<<"x">>, <<"b">>>>}

Configs ==
    [total_sources_limit : 1..MaxTotalLimit,
     categories : CategoryLists,
     user_custom_sites : CustomSiteLists,
     excluded_domains : ExcludedLists]

NoConfig ==
    [total_sources_limit |-> 1, categories |-> <<>>, user_custom_sites |-> <<>>,
     excluded_domains |-> <<>>]

\* The general query, or "site:<site> <query>".
GeneralQuery == [site |-> None]
SiteQuery(site) == [site |-> site]

\* One search_duckduckgo(query, limit) call: the request fails (or an import
\* is missing) and the call returns [], or it returns a page and the loop of
\* lines 275-282 runs; all_urls.extend(...) follows.
Search(query, limit) ==
    \E answered \in BOOLEAN, page \in Pages :
        LET urls == IF answered THEN search_duckduckgo(page, limit) ELSE <<>>
        IN  /\ calls' = Append(calls, [query |-> query, limit |-> limit,
                                     page |-> IF answered THEN page ELSE <<>>,
                                     urls |-> urls])
            /\ all_urls' = all_urls \o urls

\* Every base site of the category.
base_sites_unsliced(category) == category.base_sites

\* Line 313: base_sites[:2]
base_sites_queried(category) ==
    SubSeq(category.base_sites, 1, Min(2, Len(category.base_sites)))

\* Line 319: user_custom_sites[:3]
custom_sites_queried(cfg) ==
    SubSeq(cfg.user_custom_sites, 1, Min(3, Len(cfg.user_custom_sites)))

\* Lines 325-332: the walk over all_urls from index i on; `seen` holds the
\* same URLs as `filtered`.
RECURSIVE FilterLoop(_, _, _, _, _)
FilterLoop(urls, excluded_domains, total_limit, i, filtered) ==
    IF i > Len(urls) THEN filtered
    ELSE IF urls[i] \notin Range(filtered) /\ ~is_domain_blocked(urls[i], excluded_domains)
      THEN (IF Len(filtered) + 1 >= total_limit
              THEN Append(filtered, urls[i])
              ELSE FilterLoop(urls, excluded_domains, total_limit, i + 1,
                              Append(filtered, urls[i])))
      ELSE FilterLoop(urls, excluded_domains, total_limit, i + 1, filtered)

\* Lines 303-305: the general search, with limit total_limit // 2.
SearchGeneral ==
    /\ spc = "general"
    /\ Search(GeneralQuery, config.total_sources_limit \div 2)
    /\ spc' = "categories"
    /\ ci' = 1
    /\ si' = 1
    /\ UNCHANGED <<config, sresult>>
    /\ NotSearch

\* Lines 308-310 and the end of the loop of line 313: a disabled category,
\* or one whose sites are done, gives way to the next.
NextCategory ==
    /\ spc = "categories"
    /\ ci <= Len(config.categories)
    /\ \/ ~config.categories[ci].enabled
       \/ si > Len(base_sites_queried(config.categories[ci]))
    /\ ci' = ci + 1
    /\ si' = 1
    /\ UNCHANGED <<spc, config, calls, all_urls, sresult>>
    /\ NotSearch

\* Lines 313-316: one site-scoped search with limit 3.
SearchCategorySite ==
    /\ spc = "categories"
    /\ ci <= Len(config.categories)
    /\ config.categories[ci].enabled
    /\ si <= Len(base_sites_queried(config.categories[ci]))
    /\ Search(SiteQuery(base_sites_queried(config.categories[ci])[si]), 3)
    /\ si' = si + 1
    /\ UNCHANGED <<spc, config, ci, sresult>>
    /\ NotSearch

\* The loop of line 308 is over.
CategoriesDone ==
    /\ spc = "categories"
    /\ ci > Len(config.categories)
    /\ spc' = "custom"
    /\ si' = 1
    /\ UNCHANGED <<config, ci, calls, all_urls, sresult>>
    /\ NotSearch

\* Lines 319-322: one site-scoped search with limit 2.
SearchCustomSite ==
    /\ spc = "custom"
    /\ si <= Len(custom_sites_queried(config))
    /\ Search(SiteQuery(custom_sites_queried(config)[si]), 2)
    /\ si' = si + 1
    /\ UNCHANGED <<spc, config, ci, sresult>>
    /\ NotSearch

\* Lines 324-335: the filter, and the return.
FilterAndReturn ==
    /\ spc = "custom"
    /\ si > Len(custom_sites_queried(config))
    /\ sresult' = FilterLoop(all_urls, config.excluded_domains,
                             config.total_sources_limit, 1, <<>>)
    /\ spc' = "returned"
    /\ UNCHANGED <<config, ci, si, calls, all_urls>>
    /\ NotSearch

\* ------------------------------------------------------------ specification

MainOff ==
    /\ stdin = [kind |-> "empty", command |-> "none", field |-> FALSE, nurls |-> 0]
    /\ mpc = "off"
    /\ stdout = <<>>
    /\ escaped = FALSE
    /\ task = <<>>
    /\ outcome = <<>>
    /\ fetchCount = <<>>
    /\ threads = 0
    /\ results = <<>>
    /\ found = -1
    /\ crashLogged = FALSE
    /\ bulkCalled = FALSE

FetchOff ==
    /\ fpc = "off"
    /\ deps = [curl_cffi |-> TRUE, bs4 |-> TRUE, html2text |-> TRUE]
    /\ response = NoResponse
    /\ soup = NoDocument
    /\ title = None
    /\ main_content = None
    /\ final_len = 0
    /\ fresult = NoResult

SearchOff ==
    /\ spc = "off"
    /\ config = NoConfig
    /\ ci = 0
    /\ si = 0
    /\ calls = <<>>
    /\ all_urls = <<>>
    /\ sresult = <<>>

Init ==
    /\ stdin \in StdinShapes
    /\ mpc = "read"
    /\ stdout = <<>>
    /\ escaped = FALSE
    /\ task = <<>>
    /\ outcome = <<>>
    /\ fetchCount = <<>>
    /\ threads = 0
    /\ results = <<>>
    /\ found = -1
    /\ crashLogged = FALSE
    /\ bulkCalled = FALSE
    /\ FetchOff
    /\ SearchOff

Next ==
    \/ ReadStdin
    \/ ParseJson
    \/ GetCommand
    \/ CmdScrape
    \/ CmdSearchDuckduckgo
    \/ CmdSmartSearch
    \/ CmdSearchAndScrape
    \/ CmdScrapeUrlsBulk
    \/ CmdCheck
    \/ CmdUnknown
    \/ Submit
    \/ WorkerStart
    \/ FetchSuccess
    \/ FetchFailure
    \/ FetchCrash
    \/ Collect
    \/ BulkReturn

Spec == Init /\ [][Next]_vars

\* One scrape_url call, with the import flags as the module load left them.
InitFetch ==
    /\ MainOff
    /\ SearchOff
    /\ fpc = "deps"
    /\ deps \in [curl_cffi : BOOLEAN, bs4 : BOOLEAN, html2text : BOOLEAN]
    /\ response = NoResponse
    /\ soup = NoDocument
    /\ title = None
    /\ main_content = None
    /\ final_len = 0
    /\ fresult = NoResult

NextFetch ==
    \/ CheckDependencies
    \/ RequestFails
    \/ RequestReturns
    \/ CheckLength
    \/ ParseFails
    \/ ParseReturns
    \/ Extract
    \/ Convert
    \/ UnexpectedException

SpecFetch == InitFetch /\ [][NextFetch]_vars

\* One smart_search_impl call on a config.
InitSearch ==
    /\ MainOff
    /\ FetchOff
    /\ spc = "general"
    /\ config \in Configs
    /\ ci = 0
    /\ si = 0
    /\ calls = <<>>
    /\ all_urls = <<>>
    /\ sresult = <<>>

NextSearch ==
    \/ SearchGeneral
    \/ NextCategory
    \/ SearchCategorySite
    \/ CategoriesDone
    \/ SearchCustomSite
    \/ FilterAndReturn

SpecSearch == InitSearch /\ [][NextSearch]_vars

\* ------------------------------------------------------------------ claims

\* C1: at every instant of a scrape_urls_bulk_impl run, whatever the length
\* of the URL list, at most 5 scrape_url calls have started and not finished.
C1_AtMostFiveInFlight == Cardinality(InFlight) <= 5

\* Five calls in flight while a sixth entry waits in the queue.
C1_Witness ==
    /\ Cardinality(InFlight) = 5
    /\ \E i \in Entries : task[i] = "queued"

\* The steps the futures have left: submit, start, finish, collect.
StepsLeft(t) ==
    LET In(state) == Cardinality({i \in 1..Len(t) : t[i] = state})
    IN  4 * In("unsubmitted") + 3 * In("queued") + 2 * In("running") + In("done")

\* A bound on the steps main() has left; 0 only when it has returned.
Variant ==
    CASE mpc = "read"     -> 4 * (MaxUrls + MaxFound) + 6
      [] mpc = "parse"    -> 4 * (MaxUrls + MaxFound) + 5
      [] mpc = "command"  -> 4 * (MaxUrls + MaxFound) + 4
      [] mpc = "dispatch" -> 4 * (MaxUrls + MaxFound) + 3
      [] mpc = "submit"   -> StepsLeft(task) + 1
      [] mpc = "collect"  -> StepsLeft(task) + 1
      [] OTHER            -> 0

Successes == {i \in Entries : outcome[i] = "success"}

\* C2: scrape_urls_bulk_impl always terminates (every step lowers Variant
\* and a step is possible until main() is done), and the list it returns
\* holds each entry whose fetch returned success exactly once and no entry
\* whose fetch returned an error or raised; every entry was fetched, none
\* was cancelled.
C2_ExactSuccessesAndTermination ==
    /\ [](mpc = "done" /\ bulkCalled =>
            /\ Range(results) = Successes
            /\ Len(results) = Cardinality(Successes)
            /\ \A i \in Entries : task[i] = "collected" /\ outcome[i] # "none")
    /\ [](mpc # "done" => ENABLED Next)
    /\ [][Variant' < Variant]_vars

\* A returned run of more than 5 entries with a success, an error and a
\* crash, whose successes came back out of input order.
C2_Witness ==
    /\ mpc = "done"
    /\ bulkCalled
    /\ Len(task) > 5
    /\ crashLogged
    /\ \E i, j \in Entries :
          outcome[i] = "success" /\ outcome[j] = "error"
    /\ Len(results) >= 2
    /\ results[1] > results[2]

ErrorInputs ==
    {s \in StdinShapes :
        \/ s.kind \in {"empty", "notjson", "nonobject"}
        \/ s.command \in {"absent", "bogus"}
        \/ s.command \in NeedsField /\ ~s.field}

\* C5: for every content of standard input main() writes exactly one
\* envelope, of type success or error; it is an error envelope for empty or
\* unparsable input, an unknown or absent command and a missing required
\* field; no exception leaves main().
C5_ExactlyOneEnvelope ==
    /\ ~escaped
    /\ Len(stdout) <= 1
    /\ mpc # "done" => stdout = <<>> /\ ENABLED Next
    /\ mpc = "done" =>
          /\ Len(stdout) = 1
          /\ stdout[1].type \in {"success", "error"}
          /\ stdin \in ErrorInputs => stdout[1].type = "error"

\* main() has answered a JSON value that is no object.
C5_Witness ==
    /\ mpc = "done"
    /\ stdin.kind = "nonobject"
    /\ Len(stdout) = 1
    /\ stdout[1].type = "error"

\* C10: scrape_url is invoked at most once per entry at any time and exactly
\* once per entry by the time the command has answered; an empty list from
\* smart_search_impl answers success without entering the bulk fetch.
C10_OneFetchPerEntry ==
    /\ \A i \in Entries : fetchCount[i] <= 1
    /\ bulkCalled => Len(fetchCount) = found
    /\ mpc = "done" /\ found > 0 => \A i \in 1..found : fetchCount[i] = 1
    /\ mpc = "done" /\ found = 0 /\ stdin.command = "search_and_scrape" =>
          /\ ~bulkCalled
          /\ fetchCount = <<>>
          /\ stdout = <<Envelope("success", "results")>>

\* A finished run in which a fetch failed, one crashed, and each ran once.
C10_Witness ==
    /\ mpc = "done"
    /\ found > 1
    /\ crashLogged
    /\ \E i \in Entries : outcome[i] = "error"
    /\ \A i \in Entries : fetchCount[i] = 1

\* What C6 says of a call but for the status: it has no result before it
\* returns and can always go on, it returns a success or an error dict, an
\* error dict has a message, and a success dict comes only after all three
\* imports, a body of at least 100 bytes that parsed and a final text of at
\* least 100 characters.
SuccessOnlyAfterChecks ==
    /\ fpc # "returned" => fresult = NoResult /\ ENABLED NextFetch
    /\ fpc = "returned" => fresult.type \in {"success", "error"}
    /\ fresult.type = "error" => fresult.message # None
    /\ fresult.type = "success" =>
          /\ deps.curl_cffi /\ deps.bs4 /\ deps.html2text
          /\ response.length >= 100
          /\ soup.parsed
          /\ final_len >= 100

\* C6 (as claimed): scrape_url returns a success dict only after a 2xx
\* response of at least 100 bytes that parsed and gave a final text of at
\* least 100 characters; every other run returns an error dict with a
\* message, and no run raises.
C6_SuccessOnlyAfter2xx ==
    /\ SuccessOnlyAfterChecks
    /\ fresult.type = "success" => response.status \in 200..299

\* C6 (amended): the same, with the status one raise_for_status accepts,
\* that is any status below 400.
C6_SuccessOnlyAfterAcceptedStatus ==
    /\ SuccessOnlyAfterChecks
    /\ fresult.type = "success" => response.status \in 200..399

\* A success on a 300 response with a body of exactly 100 bytes and a text
\* of exactly 100 characters.
C6_Witness ==
    /\ fpc = "returned"
    /\ fresult.type = "success"
    /\ response.status = 300
    /\ response.length = 100
    /\ final_len = 100

\* The candidate the priority order names: the first of article, main,
\* [role="main"], .content, .post, .entry with more than 200 characters of
\* text, else the body, else the document.
PriorityCandidate(doc) ==
    LET good == {i \in 1..Len(ElementKinds) : doc.text[ElementKinds[i]] > 200}
    IN  IF good # {} THEN ElementKinds[CHOOSE i \in good : \A j \in good : i <= j]
        ELSE IF doc.body THEN "body" ELSE "soup"

\* C8: the main content scrape_url settles on is the first of the six
\* candidates, in priority order, whose text exceeds 200 characters, and the
\* body (or the document) only when none of the six qualifies.
C8_FirstQualifyingCandidate ==
    main_content # None => main_content = PriorityCandidate(soup)

\* The title the order names: og:title content, then meta name="title"
\* content, then the <title> text, then the placeholder.
FirstAvailableTitle(doc) ==
    IF doc.og_title = "text" THEN "og"
    ELSE IF doc.meta_title = "text" THEN "meta"
    ELSE IF doc.title_el = "text" THEN "title"
    ELSE "Sem titulo"

\* C9: the title scrape_url extracts is the first available of og:title,
\* meta name="title" and <title>, the placeholder only when none has a value.
C9_FirstAvailableTitle ==
    title # None => title = FirstAvailableTitle(soup)

NoDuplicates(seq) == \A i, j \in 1..Len(seq) : seq[i] = seq[j] => i = j

\* C3: smart_search_impl returns at most total_sources_limit URLs, none of
\* them twice, none with a host that has an excluded entry as a substring.
C3_LimitedDistinctUnblocked ==
    spc = "returned" =>
        /\ Len(sresult) <= config.total_sources_limit
        /\ NoDuplicates(sresult)
        /\ \A i \in 1..Len(sresult) :
              \A k \in 1..Len(config.excluded_domains) :
                ~IsSubstring(config.excluded_domains[k], Netloc(sresult[i]))

\* A full answer drawn from overlapping responses that held more URLs than
\* the limit and a URL of an excluded domain.
C3_Witness ==
    /\ spc = "returned"
    /\ Len(sresult) = config.total_sources_limit
    /\ Len(all_urls) > config.total_sources_limit
    /\ ~NoDuplicates(all_urls)
    /\ \E i \in 1..Len(all_urls) : is_domain_blocked(all_urls[i], config.excluded_domains)

\* s is t with some entries left out, the order kept.
RECURSIVE IsSubsequence(_, _)
IsSubsequence(s, t) ==
    IF s = <<>> THEN TRUE
    ELSE IF t = <<>> THEN FALSE
    ELSE IF Head(s) = Head(t) THEN IsSubsequence(Tail(s), Tail(t))
    ELSE IsSubsequence(s, Tail(t))

\* C4: every search_duckduckgo call, the one with limit 0 included, returns
\* at most `limit` URLs, in the document order of the anchors, none of them
\* an ad or tracker URL.
C4_AtMostLimitUrls ==
    \A c \in 1..Len(calls) :
        /\ Len(calls[c].urls) <= calls[c].limit
        /\ IsSubsequence(calls[c].urls, calls[c].page)
        /\ \A i \in 1..Len(calls[c].urls) : ~is_ad_or_tracker_url(calls[c].urls[i])

RECURSIVE CategoryCalls(_)
CategoryCalls(categories) ==
    IF categories = <<>> THEN <<>>
    ELSE LET c == Head(categories)
             sites == IF c.enabled THEN c.base_sites ELSE <<>>
         IN  [i \in 1..Min(2, Len(sites)) |-> [query |-> SiteQuery(sites[i]), limit |-> 3]]
             \o CategoryCalls(Tail(categories))

\* The calls one run is to make, in order.
ExpectedCalls(cfg) ==
    <<[query |-> GeneralQuery, limit |-> cfg.total_sources_limit \div 2]>>
    \o CategoryCalls(cfg.categories)
    \o [i \in 1..Min(3, Len(cfg.user_custom_sites)) |->
          [query |-> SiteQuery(cfg.user_custom_sites[i]), limit |-> 2]]

RECURSIVE Concatenated(_)
Concatenated(cs) == IF cs = <<>> THEN <<>> ELSE Head(cs).urls \o Concatenated(Tail(cs))

\* C7: the search_duckduckgo calls of one smart_search_impl run are, in
\* order, the general query with limit total_sources_limit // 2, one call
\* with limit 3 for each of the first two base sites of each enabled
\* category, one call with limit 2 for each of the first three custom sites,
\* and no other; all_urls is their results joined in that order.
C7_CallSequence ==
    LET made == [i \in 1..Len(calls) |->
                    [query |-> calls[i].query, limit |-> calls[i].limit]]
        expected == ExpectedCalls(config)
    IN  /\ Len(made) <= Len(expected)
        /\ made = SubSeq(expected, 1, Len(made))
        /\ spc = "returned" => made = expected
        /\ all_urls = Concatenated(calls)

\* A finished run over a disabled category, an enabled one with three base
\* sites and four custom sites: six calls.
C7_Witness ==
    /\ spc = "returned"
    /\ Len(config.categories) = 2
    /\ ~config.categories[1].enabled
    /\ Len(config.categories[2].base_sites) = 3
    /\ Len(config.user_custom_sites) = 4
    /\ Len(calls) = 6
    /\ all_urls # <<>>

====
